---- MODULE Spec2Model ----
(***************************************************************************)
(* Model of the in-memory LRU cache with TTL of src/server.js (class       *)
(* LRUCache, lines 41-85), of the clock it reads and of the /api/weather   *)
(* handler (lines 110-169) that is the cache's caller.                     *)
(*                                                                         *)
(* A JavaScript Map iterates in insertion order; it is modelled as a       *)
(* sequence of records [key, value, expiry], first inserted first.         *)
(***************************************************************************)
EXTENDS Integers, Sequences, FiniteSets, TLC

\* ---------------------------------------------------------------- bounds
MaxCapacity == 2        \* capacities 1..MaxCapacity are explored
MaxTtlSeconds == 1      \* ttlSeconds 1..MaxTtlSeconds are explored
MaxTicks == 3           \* the clock advances at most MaxTicks times

\* ------------------------------------------------------------- constants
MillisPerSecond == 1000                 \* server.js:44  ttlSeconds * 1000
TickMillis == MillisPerSecond           \* the clock is sampled once per second

Keys == {"", "a", "b"}                  \* string keys, the empty string included
Values == {"v1", "v2"}                  \* opaque payloads
Null == "null"                          \* JavaScript null (the result of a miss)
\* no set of the key is in effect
NoSet == [t |-> -1, value |-> Null]

Requests == {"r1", "r2"}                \* requests that may be in flight together
Undefined == "<undefined>"              \* req.query.city when the parameter is missing
\* values of the city query parameter
Queries == {Undefined, " ", "A", " b"}
\* a request slot with no request in it
Idle == [pc |-> "idle", city |-> "", key |-> "", status |-> 0, cached |-> FALSE,
         data |-> Null, fetched |-> FALSE, stored |-> FALSE, sent |-> 0]

VARIABLES
    maxEntries,     \* this.maxEntries
    ttlMillis,      \* this.ttlMillis
    map,            \* this.map, in iteration (insertion) order
    now,            \* Date.now()
    last,           \* the call that was made last, its arguments and its result
    recency,        \* every key touched so far (get hit or set), oldest touch first
    lastSet,        \* per key: time and value of its latest set, NoSet once evicted
    onlySets,       \* TRUE while no get has been called
    apiKey,         \* whether API_KEY is set
    req             \* per request: where its handler stands and what it has done

vars == <<maxEntries, ttlMillis, map, now, last, recency, lastSet, onlySets, apiKey, req>>

\* ------------------------------------------------------ JavaScript Map
Range(s) == {s[i] : i \in 1..Len(s)}

RECURSIVE SelectKeys(_, _)
\* the entries of m whose key is not k, in order
SelectKeys(m, k) ==
    IF m = <<>> THEN <<>>
    ELSE IF Head(m).key = k THEN SelectKeys(Tail(m), k)
         ELSE <<Head(m)>> \o SelectKeys(Tail(m), k)

MapKeys(m) == {m[i].key : i \in 1..Len(m)}
MapHas(m, k) == k \in MapKeys(m)
MapIndex(m, k) == CHOOSE i \in 1..Len(m) : m[i].key = k
MapGet(m, k) == m[MapIndex(m, k)]
MapDelete(m, k) == SelectKeys(m, k)
\* Map.prototype.set: an existing key keeps its position, a new key goes last
MapSet(m, k, e) ==
    IF MapHas(m, k)
    THEN [i \in 1..Len(m) |-> IF m[i].key = k THEN [key |-> k, value |-> e.value, expiry |-> e.expiry] ELSE m[i]]
    ELSE Append(m, [key |-> k, value |-> e.value, expiry |-> e.expiry])
KeyOrder(m) == [i \in 1..Len(m) |-> m[i].key]

\* JavaScript truthiness of a string key: only the empty string is falsy
Truthy(k) == k # ""

\* ------------------------------------------------------------ LRUCache
\* variant: an entry counts as expired from the instant of its expiry on
_isExpiredAtBoundary(entry, t) == t >= entry.expiry

_isExpired(entry, t) == t > entry.expiry

\* variant: a hit restarts the entry's time to live (sliding expiry)
getSliding(m, key, t) ==
    IF ~MapHas(m, key) THEN [map |-> m, result |-> Null]
    ELSE LET entry == MapGet(m, key) IN
         IF _isExpired(entry, t)
         THEN [map |-> MapDelete(m, key), result |-> Null]
         ELSE [map |-> MapSet(MapDelete(m, key), key,
                              [value |-> entry.value, expiry |-> t + ttlMillis]),
               result |-> entry.value]

\* variant: a hit returns the value without the delete and re-set
getNoPromote(m, key, t) ==
    IF ~MapHas(m, key) THEN [map |-> m, result |-> Null]
    ELSE LET entry == MapGet(m, key) IN
         IF _isExpired(entry, t)
         THEN [map |-> MapDelete(m, key), result |-> Null]
         ELSE [map |-> m, result |-> entry.value]

\* variant: without the `if (!entry) return null` guard, reading the expiry
\* of undefined throws
getNoGuard(m, key, t) ==
    IF ~MapHas(m, key) THEN [map |-> m, result |-> "TypeError"]
    ELSE LET entry == MapGet(m, key) IN
         IF _isExpired(entry, t)
         THEN [map |-> MapDelete(m, key), result |-> Null]
         ELSE [map |-> MapSet(MapDelete(m, key), key, entry), result |-> entry.value]

\* variant: an expired access sweeps every expired entry, not only its own
getSweepsExpired(m, key, t) ==
    IF ~MapHas(m, key) THEN [map |-> m, result |-> Null]
    ELSE LET entry == MapGet(m, key) IN
         IF _isExpired(entry, t)
         THEN [map |-> SelectSeq(m, LAMBDA e : ~_isExpired(e, t)), result |-> Null]
         ELSE [map |-> MapSet(MapDelete(m, key), key, entry), result |-> entry.value]

\* get(key) at clock value t: the map afterwards and the returned value
get(m, key, t) ==
    IF ~MapHas(m, key) THEN [map |-> m, result |-> Null]
    ELSE LET entry == MapGet(m, key) IN
         IF _isExpired(entry, t)
         THEN [map |-> MapDelete(m, key), result |-> Null]
         ELSE [map |-> MapSet(MapDelete(m, key), key, entry), result |-> entry.value]

\* variant: the stored key is not deleted before Map.set, so it keeps its place
setInPlace(m, key, value, t) ==
    LET evicted == IF Len(m) >= maxEntries
                   THEN (IF m # <<>> /\ Truthy(m[1].key) THEN MapDelete(m, m[1].key) ELSE m)
                   ELSE m
        entry == [value |-> value, expiry |-> t + ttlMillis]
    IN MapSet(evicted, key, entry)

\* variant: a stored key keeps the value it has (only expiry and place change)
setKeepsOldValue(m, key, value, t) ==
    LET evicted == IF Len(m) >= maxEntries
                   THEN (IF m # <<>> /\ Truthy(m[1].key) THEN MapDelete(m, m[1].key) ELSE m)
                   ELSE m
        kept == IF MapHas(evicted, key) THEN MapGet(evicted, key).value ELSE value
        entry == [value |-> kept, expiry |-> t + ttlMillis]
        removed == IF MapHas(evicted, key) THEN MapDelete(evicted, key) ELSE evicted
    IN MapSet(removed, key, entry)

\* variant: the eviction test is off by one (size + 1 >= maxEntries)
setEvictsEarly(m, key, value, t) ==
    LET evicted == IF Len(m) + 1 >= maxEntries
                   THEN (IF m # <<>> /\ Truthy(m[1].key) THEN MapDelete(m, m[1].key) ELSE m)
                   ELSE m
        entry == [value |-> value, expiry |-> t + ttlMillis]
        removed == IF MapHas(evicted, key) THEN MapDelete(evicted, key) ELSE evicted
    IN MapSet(removed, key, entry)

\* set(key, value) at clock value t: the map afterwards
set(m, key, value, t) ==
    LET evicted == IF Len(m) >= maxEntries
                   THEN (IF m # <<>> /\ Truthy(m[1].key) THEN MapDelete(m, m[1].key) ELSE m)
                   ELSE m
        entry == [value |-> value, expiry |-> t + ttlMillis]
        removed == IF MapHas(evicted, key) THEN MapDelete(evicted, key) ELSE evicted
    IN MapSet(removed, key, entry)

stats(m) == [entries |-> Len(m), maxEntries |-> maxEntries, ttlMillis |-> ttlMillis]

\* ------------------------------------------------------- history helpers
\* k becomes the most recently touched key
Touch(r, k) == Append(SelectSeq(r, LAMBDA x : x # k), k)

NoStats == [entries |-> -1, maxEntries |-> -1, ttlMillis |-> -1]
\* where the key was in the map before the call
Place(m, k) ==
    IF ~MapHas(m, k) THEN "absent" ELSE IF m[Len(m)].key = k THEN "last" ELSE "inner"
NoCall == [op |-> "none", key |-> "", value |-> Null, result |-> Null,
           was |-> "absent", snapshot |-> NoStats]

\* ----------------------------------------------------------------- Init
Init ==
    /\ maxEntries \in 1..MaxCapacity
    /\ \E ttlSeconds \in 1..MaxTtlSeconds : ttlMillis = ttlSeconds * MillisPerSecond
    /\ map = <<>>
    /\ now = 0
    /\ last = NoCall
    /\ recency = <<>>
    /\ lastSet = [k \in Keys |-> NoSet]
    /\ onlySets = TRUE
    /\ apiKey = TRUE
    /\ req = [r \in Requests |-> Idle]

\* -------------------------------------------------------------- actions
Get ==
    \E key \in Keys :
        LET r == get(map, key, now) IN
        /\ map' = r.map
        /\ last' = [op |-> "get", key |-> key, value |-> Null, result |-> r.result,
                    was |-> Place(map, key),
                    snapshot |-> NoStats]
        /\ recency' = IF r.result # Null THEN Touch(recency, key) ELSE recency
        /\ onlySets' = FALSE
        /\ UNCHANGED <<maxEntries, ttlMillis, now, lastSet, apiKey, req>>

Set ==
    \E key \in Keys, value \in Values :
        /\ map' = set(map, key, value, now)
        /\ last' = [op |-> "set", key |-> key, value |-> value, result |-> Null,
                    was |-> Place(map, key),
                    snapshot |-> NoStats]
        /\ recency' = Touch(recency, key)
        /\ lastSet' = [k \in Keys |->
                         IF k = key THEN [t |-> now, value |-> value]
                         ELSE IF MapHas(map, k) /\ ~MapHas(map', k) THEN NoSet
                         ELSE lastSet[k]]
        /\ UNCHANGED <<maxEntries, ttlMillis, now, onlySets, apiKey, req>>

\* variant: stats() sweeps the expired entries before it counts
StatsSweeping ==
    LET swept == SelectSeq(map, LAMBDA e : ~_isExpired(e, now)) IN
    /\ map' = swept
    /\ last' = [op |-> "stats", key |-> "", value |-> Null, result |-> Null,
                was |-> "absent",
                snapshot |-> [entries |-> Len(swept), maxEntries |-> maxEntries,
                              ttlMillis |-> ttlMillis]]
    /\ UNCHANGED <<maxEntries, ttlMillis, now, recency, lastSet, onlySets, apiKey, req>>

Stats ==
    /\ last' = [op |-> "stats", key |-> "", value |-> Null, result |-> Null,
                was |-> "absent", snapshot |-> stats(map)]
    /\ UNCHANGED <<maxEntries, ttlMillis, map, now, recency, lastSet, onlySets, apiKey, req>>

Tick ==
    /\ now < MaxTicks * TickMillis
    /\ now' = now + TickMillis
    /\ last' = NoCall
    /\ UNCHANGED <<maxEntries, ttlMillis, map, recency, lastSet, onlySets, apiKey, req>>

Next == Get \/ Set \/ Stats \/ Tick

Spec == Init /\ [][Next]_vars

\* the constructor stores whatever maxEntries it is given (CACHE_MAX_ENTRIES
\* may parse to zero or to a negative number)
ConstructorArgs == -1..MaxCapacity

InitAnyCapacity ==
    /\ maxEntries \in ConstructorArgs
    /\ \E ttlSeconds \in 1..MaxTtlSeconds : ttlMillis = ttlSeconds * MillisPerSecond
    /\ map = <<>>
    /\ now = 0
    /\ last = NoCall
    /\ recency = <<>>
    /\ lastSet = [k \in Keys |-> NoSet]
    /\ onlySets = TRUE
    /\ apiKey = TRUE
    /\ req = [r \in Requests |-> Idle]

SpecAnyCapacity == InitAnyCapacity /\ [][Next]_vars

\* ------------------------------------------------ /api/weather handler
\* req.query.city || ''
OrEmpty(q) == IF q = Undefined \/ q = "" THEN "" ELSE q
\* String.prototype.trim on the query values
Trim(c) == CASE c = " " -> "" [] c = " b" -> "b" [] OTHER -> c
\* String.prototype.toLowerCase on the query values
ToLowerCase(c) == CASE c = "A" -> "a" [] OTHER -> c

\* what the upstream call can settle to
FetchOutcomes == {"rejected", "404", "not ok", "ok"}
TextOutcomes == {"rejected", "resolved"}
\* r.json(): a rejection, a body the attribute extraction throws on, or a payload
JsonOutcomes == {"rejected", "malformed"} \cup Values
Pending == {"fetch", "text", "json"}

\* res.status(status).json(...): one more response on the request, which is done
Respond(q, status, cached, data) ==
    [q EXCEPT !.pc = "done", !.status = status, !.cached = cached, !.data = data,
              !.sent = q.sent + 1]

\* the cache and its history after cache.get(key) returned result (lines 118)
CacheGetCall(key, r) ==
    /\ map' = r.map
    /\ last' = [op |-> "get", key |-> key, value |-> Null, result |-> r.result,
                was |-> Place(map, key), snapshot |-> NoStats]
    /\ recency' = IF r.result # Null THEN Touch(recency, key) ELSE recency
    /\ onlySets' = FALSE
    /\ UNCHANGED lastSet

\* the cache and its history after cache.set(key, value) (line 162)
CacheSetCall(key, value) ==
    /\ map' = set(map, key, value, now)
    /\ last' = [op |-> "set", key |-> key, value |-> value, result |-> Null,
                was |-> Place(map, key), snapshot |-> NoStats]
    /\ recency' = Touch(recency, key)
    /\ lastSet' = [k \in Keys |->
                     IF k = key THEN [t |-> now, value |-> value]
                     ELSE IF MapHas(map, k) /\ ~MapHas(map', k) THEN NoSet
                     ELSE lastSet[k]]
    /\ UNCHANGED onlySets

NoCacheCall ==
    /\ last' = NoCall
    /\ UNCHANGED <<map, recency, lastSet, onlySets>>

\* a request arrives and its handler runs up to the first await (lines 111-129)
Arrive(r) ==
    /\ req[r].pc = "idle"
    /\ \E q \in Queries :
         LET city == Trim(OrEmpty(q))
             key == ToLowerCase(city)
             cached == get(map, key, now)
             started == [req[r] EXCEPT !.city = city, !.key = key]
         IN IF city = ""
            THEN /\ req' = [req EXCEPT ![r] = Respond([req[r] EXCEPT !.city = city], 400, FALSE, Null)]
                 /\ NoCacheCall
            ELSE /\ CacheGetCall(key, cached)
                 /\ req' = [req EXCEPT ![r] =
                              IF cached.result # Null
                              THEN Respond(started, 200, TRUE, cached.result)
                              ELSE IF ~apiKey
                              THEN Respond(started, 500, FALSE, Null)
                              ELSE [started EXCEPT !.pc = "fetch", !.fetched = TRUE]]
    /\ UNCHANGED <<maxEntries, ttlMillis, now, apiKey>>

\* variant: the vendor's 404 is saved under the key before it is answered
FetchSettlesCaches404(r) ==
    /\ req[r].pc = "fetch"
    /\ \E outcome \in FetchOutcomes :
         IF outcome = "404"
         THEN /\ CacheSetCall(req[r].key, "v1")
              /\ req' = [req EXCEPT ![r] =
                           Respond([req[r] EXCEPT !.stored = TRUE], 404, FALSE, Null)]
         ELSE /\ NoCacheCall
              /\ req' = [req EXCEPT ![r] =
                           CASE outcome = "rejected" -> Respond(req[r], 500, FALSE, Null)
                             [] outcome = "not ok" -> [req[r] EXCEPT !.pc = "text"]
                             [] outcome = "ok" -> [req[r] EXCEPT !.pc = "json"]]
    /\ UNCHANGED <<maxEntries, ttlMillis, now, apiKey>>

\* variant: the 404 branch answers without returning and falls into `!r.ok`
FetchSettlesNoReturn(r) ==
    /\ req[r].pc = "fetch"
    /\ \E outcome \in FetchOutcomes :
         req' = [req EXCEPT ![r] =
                   CASE outcome = "rejected" -> Respond(req[r], 500, FALSE, Null)
                     [] outcome = "404" ->
                          [Respond(req[r], 404, FALSE, Null) EXCEPT !.pc = "text"]
                     [] outcome = "not ok" -> [req[r] EXCEPT !.pc = "text"]
                     [] outcome = "ok" -> [req[r] EXCEPT !.pc = "json"]]
    /\ NoCacheCall
    /\ UNCHANGED <<maxEntries, ttlMillis, now, apiKey>>

\* await fetch(url) settles (lines 129-136 and the catch, 165-168)
FetchSettles(r) ==
    /\ req[r].pc = "fetch"
    /\ \E outcome \in FetchOutcomes :
         req' = [req EXCEPT ![r] =
                   CASE outcome = "rejected" -> Respond(req[r], 500, FALSE, Null)
                     [] outcome = "404" -> Respond(req[r], 404, FALSE, Null)
                     [] outcome = "not ok" -> [req[r] EXCEPT !.pc = "text"]
                     [] outcome = "ok" -> [req[r] EXCEPT !.pc = "json"]]
    /\ NoCacheCall
    /\ UNCHANGED <<maxEntries, ttlMillis, now, apiKey>>

\* await r.text() settles (lines 134-135 and the catch)
TextSettles(r) ==
    /\ req[r].pc = "text"
    /\ \E outcome \in TextOutcomes :
         req' = [req EXCEPT ![r] =
                   IF outcome = "rejected"
                   THEN Respond(req[r], 500, FALSE, Null)
                   ELSE Respond(req[r], 502, FALSE, Null)]
    /\ NoCacheCall
    /\ UNCHANGED <<maxEntries, ttlMillis, now, apiKey>>

\* variant: the payload is saved only when the key is not stored (first write wins)
JsonSettlesFirstWins(r) ==
    /\ req[r].pc = "json"
    /\ \E outcome \in JsonOutcomes :
         IF outcome \in Values
         THEN /\ IF MapHas(map, req[r].key)
                 THEN NoCacheCall
                 ELSE CacheSetCall(req[r].key, outcome)
              /\ req' = [req EXCEPT ![r] =
                           Respond([req[r] EXCEPT !.stored = TRUE], 200, FALSE, outcome)]
         ELSE /\ NoCacheCall
              /\ req' = [req EXCEPT ![r] = Respond(req[r], 500, FALSE, Null)]
    /\ UNCHANGED <<maxEntries, ttlMillis, now, apiKey>>

\* variant: the payload is answered without being saved
JsonSettlesNoSave(r) ==
    /\ req[r].pc = "json"
    /\ \E outcome \in JsonOutcomes :
         IF outcome \in Values
         THEN /\ NoCacheCall
              /\ req' = [req EXCEPT ![r] = Respond(req[r], 200, FALSE, outcome)]
         ELSE /\ NoCacheCall
              /\ req' = [req EXCEPT ![r] = Respond(req[r], 500, FALSE, Null)]
    /\ UNCHANGED <<maxEntries, ttlMillis, now, apiKey>>

\* await r.json() settles; on a payload the handler builds the attributes,
\* saves them and answers (lines 137-164 and the catch)
JsonSettles(r) ==
    /\ req[r].pc = "json"
    /\ \E outcome \in JsonOutcomes :
         IF outcome \in Values
         THEN /\ CacheSetCall(req[r].key, outcome)
              /\ req' = [req EXCEPT ![r] =
                           Respond([req[r] EXCEPT !.stored = TRUE], 200, FALSE, outcome)]
         ELSE /\ NoCacheCall
              /\ req' = [req EXCEPT ![r] = Respond(req[r], 500, FALSE, Null)]
    /\ UNCHANGED <<maxEntries, ttlMillis, now, apiKey>>

\* the answered request is over; the slot takes a later request
Complete(r) ==
    /\ req[r].pc = "done"
    /\ req' = [req EXCEPT ![r] = Idle]
    /\ NoCacheCall
    /\ UNCHANGED <<maxEntries, ttlMillis, now, apiKey>>

\* GET /api/health (lines 99-101)
Health == Stats

InitHandler ==
    /\ maxEntries \in 1..MaxCapacity
    /\ \E ttlSeconds \in 1..MaxTtlSeconds : ttlMillis = ttlSeconds * MillisPerSecond
    /\ map = <<>>
    /\ now = 0
    /\ last = NoCall
    /\ recency = <<>>
    /\ lastSet = [k \in Keys |-> NoSet]
    /\ onlySets = TRUE
    /\ apiKey \in BOOLEAN
    /\ req = [r \in Requests |-> Idle]

NextHandler ==
    \/ \E r \in Requests : Arrive(r)
    \/ \E r \in Requests : FetchSettles(r)
    \/ \E r \in Requests : TextSettles(r)
    \/ \E r \in Requests : JsonSettles(r)
    \/ \E r \in Requests : Complete(r)
    \/ Health
    \/ Tick

SpecHandler == InitHandler /\ [][NextHandler]_vars

\* every upstream await settles: it resolves or rejects
SpecHandlerFair ==
    /\ SpecHandler
    /\ \A r \in Requests :
         WF_vars(FetchSettles(r)) /\ WF_vars(TextSettles(r)) /\ WF_vars(JsonSettles(r))

TypeOK ==
    /\ maxEntries \in 1..MaxCapacity
    /\ now \in 0..(MaxTicks * TickMillis)
    /\ MapKeys(map) \subseteq Keys
    /\ Cardinality(MapKeys(map)) = Len(map)

\* ------------------------------------------------------- claim helpers
\* position of k in the touch history r, 0 when k was never touched
Pos(r, k) == IF \E i \in 1..Len(r) : r[i] = k THEN CHOOSE i \in 1..Len(r) : r[i] = k ELSE 0
\* the stored key whose last get hit or set is oldest
LRUKey(m, r) == CHOOSE k \in MapKeys(m) : \A j \in MapKeys(m) : Pos(r, k) <= Pos(r, j)
\* the n most recently touched distinct keys
MostRecent(r, n) == {r[i] : i \in {j \in 1..Len(r) : j > Len(r) - n}}
\* the keys of m in order, restricted to the set S
OrderWithin(m, S) == SelectSeq(KeyOrder(m), LAMBDA k : k \in S)
IsCall(l, op, k) == l.op = op /\ l.key = k

\* C1: after every completed get or set the number of stored entries is at
\* most the capacity (maxEntries), for every positive capacity and every
\* string key, the empty string included.
C1_CapacityBound == Len(map) <= maxEntries

\* C2: a set on a key that is already stored evicts nothing: every stored key
\* is still stored afterwards and the number of entries is not lower.
C2_ReplaceNeverEvicts ==
    [][\A k \in Keys :
         (IsCall(last', "set", k) /\ MapHas(map, k))
            => (MapKeys(map) \subseteq MapKeys(map') /\ Len(map') >= Len(map))]_vars

\* C3: after a sequence of set calls only that used more distinct keys than
\* the capacity, at most capacity entries are stored and the stored keys are
\* exactly the capacity most recently touched distinct keys.
C3_SetSequenceKeepsMostRecent ==
    (onlySets /\ Len(recency) > maxEntries)
        => (Len(map) <= maxEntries /\ MapKeys(map) = MostRecent(recency, maxEntries))

\* C4: a set of a key that is not stored on a cache holding exactly capacity
\* entries removes exactly one entry, the least recently used one, whatever
\* string its key is, and stores the new key.
C4_EvictsExactlyLRU ==
    [][\A k \in Keys :
         (IsCall(last', "set", k) /\ ~MapHas(map, k) /\ Len(map) = maxEntries)
            => (/\ MapKeys(map') = (MapKeys(map) \ {LRUKey(map, recency)}) \cup {k}
                /\ Len(map') = Len(map))]_vars

\* C5 as stated: after set(k, v) at time t, with no later set or eviction of
\* k, get(k) strictly before t + ttl returns v and get(k) at or after t + ttl
\* (the exact boundary included) returns absent.
C5_ExpiresAtBoundary ==
    [][\A k \in Keys :
         (IsCall(last', "get", k) /\ lastSet[k] # NoSet)
            => IF now < lastSet[k].t + ttlMillis
               THEN last'.result = lastSet[k].value
               ELSE last'.result = Null]_vars

\* C5 amended: after set(k, v) at time t, with no later set or eviction of k,
\* get(k) at any time up to and including t + ttl returns v, and get(k) at any
\* time strictly after t + ttl returns absent.
C5_ExpiresAfterBoundary ==
    [][\A k \in Keys :
         (IsCall(last', "get", k) /\ lastSet[k] # NoSet)
            => IF now <= lastSet[k].t + ttlMillis
               THEN last'.result = lastSet[k].value
               ELSE last'.result = Null]_vars

\* a get exactly ttl after the set of its key has returned the value
C5_Witness ==
    /\ last.op = "get"
    /\ lastSet[last.key] # NoSet
    /\ now = lastSet[last.key].t + ttlMillis
    /\ last.result = lastSet[last.key].value

\* C6: a value returned by get(k) at time now is the value of a stored entry
\* with now <= expiry, a hit changes no entry's expiry, and so no value is
\* returned later than ttl after the latest set of its key.
C6_NeverReturnsExpired ==
    [][\A k \in Keys :
         (IsCall(last', "get", k) /\ last'.result # Null)
            => (/\ MapHas(map, k)
                /\ last'.result = MapGet(map, k).value
                /\ now <= MapGet(map, k).expiry
                /\ lastSet[k] # NoSet
                /\ now <= lastSet[k].t + ttlMillis
                /\ \A j \in MapKeys(map) :
                       MapHas(map', j) /\ MapGet(map', j).expiry = MapGet(map, j).expiry)]_vars

\* a get has hit an entry some time after its set, the expiry still that of the set
C6_Witness ==
    /\ last.op = "get"
    /\ last.result # Null
    /\ now > lastSet[last.key].t
    /\ MapGet(map, last.key).expiry = lastSet[last.key].t + ttlMillis

\* C7: after a get that hits k or a set of k, k is the last (most recently
\* used) key and the other remaining keys keep their relative order; a get
\* that misses moves no key.
C7_PromotesToMostRecent ==
    [][\A k \in Keys :
         /\ ((IsCall(last', "get", k) /\ last'.result # Null) \/ IsCall(last', "set", k))
               => (/\ Len(map') > 0
                   /\ map'[Len(map')].key = k
                   /\ OrderWithin(map', MapKeys(map') \ {k})
                         = OrderWithin(map, MapKeys(map') \ {k}))
         /\ (IsCall(last', "get", k) /\ last'.result # Null)
               => MapKeys(map') = MapKeys(map)
         /\ (IsCall(last', "get", k) /\ last'.result = Null)
               => KeyOrder(map') = OrderWithin(map, MapKeys(map) \ {k})]_vars

\* a get has hit a key that was not the last one and moved it to the end
C7_Witness ==
    /\ last.op = "get"
    /\ last.result # Null
    /\ last.was = "inner"
    /\ map[Len(map)].key = last.key

\* C8: a set on a stored key k stores the new value with expiry now + ttl at
\* the most recently used end; a get of k that follows that set returns the
\* new value; and a set removes a stored key only if every other stored key
\* was touched more recently.
C8_RefreshResetsExpiryAndRecency ==
    [][\A k \in Keys :
         /\ (IsCall(last', "set", k) /\ MapHas(map, k))
               => (/\ Len(map') > 0
                   /\ map'[Len(map')] = [key |-> k, value |-> last'.value,
                                         expiry |-> now + ttlMillis])
         /\ (IsCall(last, "set", k) /\ last.was # "absent" /\ IsCall(last', "get", k))
               => last'.result = last.value
         /\ (last'.op = "set" /\ MapHas(map, k) /\ ~MapHas(map', k))
               => \A j \in MapKeys(map) \ {k} : Pos(recency, k) < Pos(recency, j)]_vars

\* a set has replaced a stored key that was not the last one, after time passed
C8_Witness ==
    /\ last.op = "set"
    /\ last.was = "inner"
    /\ now > 0
    /\ map[Len(map)] = [key |-> last.key, value |-> last.value, expiry |-> now + ttlMillis]

\* C9: get(k) on a key that is not stored (never set, evicted, or removed by
\* an earlier expired access) returns null, raises nothing and leaves the
\* stored entries and their order unchanged.
C9_AbsentOnMiss ==
    [][\A k \in Keys :
         (IsCall(last', "get", k) /\ ~MapHas(map, k))
            => (last'.result = Null /\ map' = map /\ recency' = recency)]_vars

\* a get has missed a key that was stored earlier, other entries being stored
C9_Witness ==
    /\ last.op = "get"
    /\ last.was = "absent"
    /\ last.result = Null
    /\ Pos(recency, last.key) > 0
    /\ Len(map) >= 1

\* C10: stats() changes neither the entries, their expiry nor their order,
\* removes no expired entry, reports the raw stored count, and the next get
\* or set has the result and effect it would have had without it.
C10_StatsReadOnly ==
    [][last'.op = "stats"
         => (/\ map' = map
             /\ recency' = recency
             /\ last'.snapshot.entries = Len(map)
             /\ \A k \in Keys :
                   /\ get(map', k, now') = get(map, k, now)
                   /\ \A v \in Values : set(map', k, v, now') = set(map, k, v, now))]_vars

\* stats() has counted an entry that is expired and is still stored
C10_Witness ==
    /\ last.op = "stats"
    /\ last.snapshot.entries = Len(map)
    /\ \E i \in 1..Len(map) : _isExpired(map[i], now)

\* C11: a cache whose capacity is not positive is never constructed, so no
\* cache with maxEntries <= 0 ever accepts a set.
C11_RejectsNonPositiveCapacity ==
    maxEntries <= 0 => (last.op # "set" /\ map = <<>>)

\* C14: a stored key leaves the cache only when it is evicted as the least
\* recently used key by a set of a different key that is not stored, on a
\* full cache, or when a get of that same key finds it expired.
C14_OnlyTwoRemovalPaths ==
    [][\A k \in Keys :
         (MapHas(map, k) /\ ~MapHas(map', k))
            => \/ /\ last'.op = "set"
                  /\ last'.key # k
                  /\ ~MapHas(map, last'.key)
                  /\ Len(map) >= maxEntries
                  /\ k = LRUKey(map, recency)
               \/ /\ IsCall(last', "get", k)
                  /\ _isExpired(MapGet(map, k), now)]_vars

\* C15: get(k) on a stored key with now > expiry removes exactly that entry
\* and returns absent, the other entries and their order unchanged; a get of
\* another key, stats() and the passage of time remove no expired entry, and
\* stats().entries counts the expired entries that are stored.
C15_LazyExpiryOnAccess ==
    [][/\ \A k \in Keys :
            (IsCall(last', "get", k) /\ MapHas(map, k) /\ now > MapGet(map, k).expiry)
               => (/\ last'.result = Null
                   /\ map' = SelectSeq(map, LAMBDA e : e.key # k))
       /\ \A j \in MapKeys(map) :
            (last'.op \in {"stats", "none"} \/ (last'.op = "get" /\ last'.key # j))
               => (MapHas(map', j) /\ MapGet(map', j) = MapGet(map, j))
       /\ last'.op = "stats" => last'.snapshot.entries = Len(map')]_vars

\* an expired access has removed its entry and left another expired entry stored
C15_Witness ==
    /\ last.op = "get"
    /\ last.was # "absent"
    /\ last.result = Null
    /\ ~MapHas(map, last.key)
    /\ \E i \in 1..Len(map) : _isExpired(map[i], now)

\* C16: a value returned by get(k) is the value passed to the latest set of
\* k, whatever gets and sets of other keys came in between.
C16_ReturnsLatestSetValue ==
    [][\A k \in Keys :
         (IsCall(last', "get", k) /\ last'.result # Null)
            => (lastSet[k] # NoSet /\ last'.result = lastSet[k].value)]_vars

\* a get has returned a value while another key holds a different value
C16_Witness ==
    /\ last.op = "get"
    /\ last.result # Null
    /\ last.result = lastSet[last.key].value
    /\ \E j \in MapKeys(map) \ {last.key} : MapGet(map, j).value # last.result

\* C18: one set removes at most one key other than the key it sets; on a
\* cache holding fewer than capacity entries it removes no other key and the
\* stored count grows by one for a new key and by zero for a stored key.
C18_SetRemovesAtMostOne ==
    [][\A k \in Keys :
         IsCall(last', "set", k)
            => (/\ Cardinality((MapKeys(map) \ MapKeys(map')) \ {k}) <= 1
                /\ Len(map) < maxEntries
                     => (/\ MapKeys(map) \subseteq MapKeys(map')
                         /\ Len(map') = Len(map) + (IF MapHas(map, k) THEN 0 ELSE 1)))]_vars

\* a set has added a new key below capacity, the key stored before still stored
C18_Witness ==
    /\ last.op = "set"
    /\ last.was = "absent"
    /\ Len(recency) = 2
    /\ Len(map) = 2
    /\ maxEntries >= 2

\* the step answers request r
Answers(r) == req[r].pc # "done" /\ req'[r].pc = "done"

\* C12: under every interleaving of concurrent requests the stored entries
\* stay at most capacity and each stored key holds the value of the last set
\* executed for it; a request that saves its payload overwrites whatever an
\* interleaved request saved under the same key.
C12_ConcurrentMissesKeepInvariants ==
    [][/\ Len(map') <= maxEntries
       /\ \A k \in MapKeys(map') :
            lastSet'[k] # NoSet /\ MapGet(map', k).value = lastSet'[k].value
       /\ \A r \in Requests :
            (Answers(r) /\ req'[r].status = 200 /\ ~req'[r].cached)
               => (/\ MapHas(map', req'[r].key)
                   /\ MapGet(map', req'[r].key).value = req'[r].data)]_vars

\* two requests for one key both missed, both called the upstream and both
\* saved, the second payload replacing the first
C12_Witness ==
    /\ now = 0
    /\ req["r1"].pc = "done" /\ req["r2"].pc = "done"
    /\ req["r1"].key = req["r2"].key
    /\ req["r1"].fetched /\ req["r2"].fetched
    /\ req["r1"].stored /\ req["r2"].stored
    /\ req["r1"].data # req["r2"].data
    /\ MapGet(map, req["r1"].key).value = req["r2"].data

\* C13: a hit is answered with the stored value (cached: true) with no
\* upstream call and no set; a miss with a successful upstream response calls
\* set with the lower-cased key and the fetched value in the step that
\* answers with cached: false.
C13_HitDirectMissSaves ==
    [][\A r \in Requests :
         /\ (Answers(r) /\ req'[r].cached)
               => (/\ req[r].pc = "idle"
                   /\ req'[r].status = 200
                   /\ IsCall(last', "get", req'[r].key)
                   /\ MapHas(map, req'[r].key)
                   /\ req'[r].data = MapGet(map, req'[r].key).value
                   /\ ~req'[r].fetched
                   /\ ~req'[r].stored
                   /\ lastSet' = lastSet)
         /\ (Answers(r) /\ req'[r].status = 200 /\ ~req'[r].cached)
               => (/\ req[r].pc = "json"
                   /\ req'[r].fetched
                   /\ req'[r].stored
                   /\ IsCall(last', "set", ToLowerCase(req'[r].city))
                   /\ last'.value = req'[r].data
                   /\ map'[Len(map')] = [key |-> ToLowerCase(req'[r].city),
                                         value |-> req'[r].data,
                                         expiry |-> now + ttlMillis])]_vars

\* a request for "A" was answered from the entry another request saved under "a"
C13_Witness ==
    \E r, o \in Requests :
        /\ req[r].pc = "done" /\ req[r].cached /\ req[r].city = "A"
        /\ req[o].pc = "done" /\ req[o].stored /\ req[o].key = "a"
        /\ last.op = "get" /\ last.key = "a"
        /\ req[r].data = req[o].data

\* C17: a request that is answered with anything but a 200 (missing city,
\* missing API key, vendor 404, vendor error, thrown error) never calls set
\* and adds no entry, so its key is stored afterwards only if it was before;
\* set is called only by a step that answers 200 with cached: false.
C17_FailedRequestStoresNothing ==
    [][/\ \A r \in Requests :
            (Answers(r) /\ req'[r].status # 200)
               => (/\ last'.op # "set"
                   /\ ~req'[r].stored
                   /\ lastSet' = lastSet
                   /\ MapKeys(map') \subseteq MapKeys(map))
       /\ last'.op = "set"
            => \E r \in Requests :
                   Answers(r) /\ req'[r].status = 200 /\ ~req'[r].cached]_vars

\* the vendor answered 404 and the key of the request is not stored
C17_Witness ==
    \E r \in Requests :
        /\ req[r].pc = "done"
        /\ req[r].status = 404
        /\ req[r].fetched
        /\ ~MapHas(map, req[r].key)

====
